---- MODULE Spec2Model ----
(***************************************************************************)
(* hydra-kratos-consent: the annotation scanner, the configuration        *)
(* compiler, the claims resolver (schema.rs) and the schema cache          *)
(* (cache.rs, validate.rs).                                                *)
(*                                                                         *)
(* Four specifications share the variables:                                *)
(*   Spec         concurrent SchemaCache::fetch calls over the RwLock map  *)
(*   CompileSpec  ImplicitScope::find then ScopeConfig::from_root, over a  *)
(*                bounded set of identity schemas                          *)
(*   ResolveSpec  ScopeConfig::resolve / resolve_all over bounded plans,   *)
(*                indices, trait documents and requested sets              *)
(*   MergeSpec    ImplicitScopeCache::merge over bounded pairs of indices  *)
(***************************************************************************)
EXTENDS Integers, Sequences, FiniteSets, TLC

VARIABLES
    \* ---- SchemaCache (cache.rs) ----
    data,           \* SchemaCache.data: IndexMap<SchemaId, Arc<Schema>> as a sequence of <<id, entry>>
    readers,        \* tasks holding a read guard of data
    writer,         \* tasks holding the write guard of data (at most one)
    pc,             \* position of every task inside SchemaCache::fetch
    arg,            \* the id argument of the task's current fetch call
    response,       \* what the identity provider answered to the task's current call
    built,          \* the (cache, config) pair validate::fetch returned, until insert takes it
    result,         \* what the task's last fetch call returned
    calls,          \* number of fetch calls the task has started
    hit,            \* what contains_key returned to the current call
    external,       \* number of validate::fetch invocations of the current call
    served,         \* per id: the results validate::fetch has returned so far
    writes,         \* per id: number of insertions into data
    \* ---- scanner / compiler / resolver (schema.rs) ----
    stage,          \* position in the scan -> compile -> resolve pipeline
    schema,         \* the trait schema (SchemaObject) being compiled
    direct_mapping, \* the direct_mapping flag
    cache,          \* ImplicitScopeCache: sequence of <<scope, pointers>>
    config,         \* ScopeConfig.scopes: sequence of <<scope, rule>>
    traits,         \* the trait document
    requested,      \* the requested scope set
    claims,         \* Claims returned by resolve_all
    claim,          \* Option<Claim> returned by ScopeConfig::resolve
    operand         \* the ImplicitScopeCache argument of ImplicitScopeCache::merge

cacheVars == <<data, readers, writer, pc, arg, response, built, result, calls, hit, external, served, writes>>
pureVars == <<stage, schema, direct_mapping, cache, config, traits, requested, claims, claim, operand>>
vars == <<cacheVars, pureVars>>

(***************************************************************************)
(* Bounds                                                                  *)
(***************************************************************************)
\* depth of property nesting below the root of a generated schema
MaxDepth == 2
\* longest pointer list of a generated Implicit Index entry
MaxPointers == 3
\* fetch calls per task
MaxCalls == 2

(***************************************************************************)
(* Option, JSON values, pointers                                           *)
(***************************************************************************)
None == [some |-> FALSE]
Some(v) == [some |-> TRUE, v |-> v]

Null == [t |-> "null"]
String(s) == [t |-> "string", s |-> s]
Array(a) == [t |-> "array", a |-> a]
\* a JSON object is an insertion-ordered sequence of <<key, value>> with distinct keys
Object(m) == [t |-> "object", m |-> m]

Range(s) == {s[i] : i \in DOMAIN s}

\* ---- IndexMap / serde_json::Map as a sequence of <<key, value>> ----
Keys(m) == [i \in DOMAIN m |-> m[i][1]]
ContainsKey(m, k) == \E i \in DOMAIN m : m[i][1] = k
IndexOf(m, k) == CHOOSE i \in DOMAIN m : m[i][1] = k
Get(m, k) == m[IndexOf(m, k)][2]
\* insert: an existing key keeps its position and gets the new value
Insert(m, k, v) ==
    IF ContainsKey(m, k)
    THEN [i \in DOMAIN m |-> IF m[i][1] = k THEN <<k, v>> ELSE m[i]]
    ELSE Append(m, <<k, v>>)

\* jsonptr::Pointer::resolve: walk the tokens through nested objects
RECURSIVE PointerResolve(_, _)
PointerResolve(pointer, value) ==
    IF pointer = <<>> THEN [ok |-> TRUE, value |-> value]
    ELSE IF value.t = "object" /\ ContainsKey(value.m, Head(pointer))
         THEN PointerResolve(Tail(pointer), Get(value.m, Head(pointer)))
         ELSE [ok |-> FALSE]

(***************************************************************************)
(* cache.rs: ImplicitScopeCache                                            *)
(***************************************************************************)
ImplicitScopeCache_new == <<>>

\* extend leaving out the pointers the entry already holds
EntryExtend_Dedup(self, scope, pointers) ==
    IF ContainsKey(self, scope)
    THEN Insert(self, scope,
            Get(self, scope) \o SelectSeq(pointers, LAMBDA x : x \notin Range(Get(self, scope))))
    ELSE Append(self, <<scope, pointers>>)

\* self.0.entry(scope).or_default().extend(pointers)
EntryExtend(self, scope, pointers) ==
    IF ContainsKey(self, scope)
    THEN Insert(self, scope, Get(self, scope) \o pointers)
    ELSE Append(self, <<scope, pointers>>)

ImplicitScopeCache_insert(self, scope, pointer) == EntryExtend(self, scope, <<pointer>>)

RECURSIVE MergeFrom(_, _, _)
MergeFrom(self, other, i) ==
    IF i > Len(other) THEN self
    ELSE MergeFrom(EntryExtend(self, other[i][1], other[i][2]), other, i + 1)

ImplicitScopeCache_merge(self, other) == MergeFrom(self, other, 1)

(***************************************************************************)
(* schema.rs: extension payloads and their parsers                         *)
(***************************************************************************)
\* the value stored under the keyword at a schema node
NoExtension == [shape |-> "absent"]
\* {"scopes": [item, ...]}
ScopesList(items) == [shape |-> "list", items |-> items]
\* {"scopes": {scope: rule, ...}}
ScopesMap(entries) == [shape |-> "map", entries |-> entries]
\* any other JSON value
OtherJson == [shape |-> "other"]

StringItem(s) == [type |-> "string", v |-> s]
NumberItem == [type |-> "number", v |-> "42"]

\* serde_json::from_value::<TraitConfiguration>: every item must be a string
ParseTraitConfiguration(extension) ==
    IF extension.shape = "list" /\ \A i \in DOMAIN extension.items : extension.items[i].type = "string"
    THEN [ok |-> TRUE, scopes |-> [i \in DOMAIN extension.items |-> extension.items[i].v]]
    ELSE [ok |-> FALSE]

Implicit(collect, session_data) ==
    [type |-> "implicit", collect |-> collect, session_data |-> session_data]
Explicit(mapping, session_data) ==
    [type |-> "explicit", mapping |-> mapping, session_data |-> session_data]
SessionData(id_token, access_token) == [id_token |-> id_token, access_token |-> access_token]
\* a rule whose "type" tag is none of implicit / explicit
UnknownRule == [type |-> "unknown"]

\* serde_json::from_value::<ScopeConfig>: every rule must deserialize
ParseScopeConfig(extension) ==
    IF extension.shape = "map"
       /\ \A i \in DOMAIN extension.entries : extension.entries[i][2].type \in {"implicit", "explicit"}
    THEN [ok |-> TRUE, scopes |-> extension.entries]
    ELSE [ok |-> FALSE]

(***************************************************************************)
(* schema.rs: ImplicitScope::find (annotation scanner)                     *)
(* A SchemaObject is [object |-> sequence of <<property, SchemaObject>>,   *)
(* extension |-> the value under the keyword]; an absent object            *)
(* validation and one without properties are both <<>>.                    *)
(***************************************************************************)
SchemaObject(object, extension) == [object |-> object, extension |-> extension]

RECURSIVE InsertScopes(_, _, _, _)
InsertScopes(pointers, scopes, pointer, i) ==
    IF i > Len(scopes) THEN pointers
    ELSE InsertScopes(ImplicitScopeCache_insert(pointers, scopes[i], pointer), scopes, pointer, i + 1)

\* the Err arm registering the scopes read before the item that failed to parse
FindExtension_Partial(pointers, extension, path) ==
    LET parsed == ParseTraitConfiguration(extension)
        strings == IF extension.shape = "list"
                   THEN SelectSeq(extension.items, LAMBDA item : item.type = "string")
                   ELSE <<>>
    IN  IF parsed.ok THEN InsertScopes(pointers, parsed.scopes, path, 1)
        ELSE InsertScopes(pointers, [i \in DOMAIN strings |-> strings[i].v], path, 1)

\* the Ok / Err arms of the match on the parsed extension
FindExtension(pointers, extension, path) ==
    LET parsed == ParseTraitConfiguration(extension)
    IN  IF parsed.ok THEN InsertScopes(pointers, parsed.scopes, path, 1) ELSE pointers

RECURSIVE find(_, _), FindProperties(_, _, _, _)
FindProperties(pointers, properties, path, i) ==
    IF i > Len(properties) THEN pointers
    ELSE FindProperties(
            ImplicitScopeCache_merge(pointers, find(properties[i][2], Append(path, properties[i][1]))),
            properties, path, i + 1)

find_object(object, path) == FindProperties(ImplicitScopeCache_new, object, path, 1)

\* find handling the node's own extension first and descending afterwards
find_ExtensionFirst(node, path) ==
    LET own ==
            IF node.extension.shape # "absent"
            THEN FindExtension(ImplicitScopeCache_new, node.extension, path)
            ELSE ImplicitScopeCache_new
    IN  IF node.object # <<>>
        THEN ImplicitScopeCache_merge(own, find_object(node.object, path))
        ELSE own

find(node, path) ==
    LET descended ==
            IF node.object # <<>>
            THEN ImplicitScopeCache_merge(ImplicitScopeCache_new, find_object(node.object, path))
            ELSE ImplicitScopeCache_new
    IN  IF node.extension.shape # "absent"
        THEN FindExtension(descended, node.extension, path)
        ELSE descended

(***************************************************************************)
(* schema.rs: ScopeConfig::from_root (configuration compiler)              *)
(***************************************************************************)
ScopeConfig_empty == <<>>

ScopeConfig_create(root) ==
    IF root.extension.shape = "absent" THEN ScopeConfig_empty
    ELSE LET parsed == ParseScopeConfig(root.extension)
         IN  IF parsed.ok THEN parsed.scopes ELSE ScopeConfig_empty

\* the rule both default passes synthesise
DefaultRule(name) == Implicit("first", SessionData(Some(name), Some(name)))

RECURSIVE ImplicitPass(_, _, _)
ImplicitPass(this, scopes, i) ==
    IF i > Len(scopes) THEN this
    ELSE ImplicitPass(
            IF ContainsKey(this, scopes[i]) THEN this
            ELSE Insert(this, scopes[i], DefaultRule(scopes[i])),
            scopes, i + 1)

insert_implicit_mapping(this, implicit_scopes) == ImplicitPass(this, Keys(implicit_scopes), 1)

\* the loop body without the contains_key test
DirectStep_Overwrite(st, key) ==
    [config |-> Insert(st.config, key, DefaultRule(key)),
     cache |-> ImplicitScopeCache_insert(st.cache, key, <<key>>)]

\* the loop body without the registration of the pointer in the Implicit Index
DirectStep_NoIndex(st, key) ==
    IF ContainsKey(st.config, key) THEN st
    ELSE [config |-> Insert(st.config, key, DefaultRule(key)), cache |-> st.cache]

\* one iteration of the loop of insert_direct_mapping on (this, cache)
DirectStep(st, key) ==
    IF ContainsKey(st.config, key) THEN st
    ELSE [config |-> Insert(st.config, key, DefaultRule(key)),
          cache |-> ImplicitScopeCache_insert(st.cache, key, <<key>>)]

RECURSIVE DirectPass(_, _, _)
DirectPass(st, keys, i) ==
    IF i > Len(keys) THEN st ELSE DirectPass(DirectStep(st, keys[i]), keys, i + 1)

insert_direct_mapping(this, value, implicit_scopes) ==
    DirectPass([config |-> this, cache |-> implicit_scopes], Keys(value.object), 1)

\* returns the plan and the (possibly extended) Implicit Index behind &mut cache
from_root(root, implicit_scopes, direct) ==
    LET this == insert_implicit_mapping(ScopeConfig_create(root), implicit_scopes)
    IN  IF direct THEN insert_direct_mapping(this, root, implicit_scopes)
        ELSE [config |-> this, cache |-> implicit_scopes]

(***************************************************************************)
(* schema.rs: claims resolver                                              *)
(***************************************************************************)
\* the loop over the pointers of a scope: the values that resolve, in order
RECURSIVE ResolvedValues(_, _, _, _)
ResolvedValues(values, pointers, document, i) ==
    IF i > Len(pointers) THEN values
    ELSE LET r == PointerResolve(pointers[i], document)
         IN  ResolvedValues(IF r.ok THEN Append(values, r.value) ELSE values,
                            pointers, document, i + 1)

\* Collect with Last taking the front of the list, as First does
Collect_LastIsFirst(collect, values) ==
    CASE collect \in {"any", "first", "last"} -> IF values = <<>> THEN Null ELSE Head(values)
      [] collect = "all" -> Array(values)

\* the match on self.collect
Collect(collect, values) ==
    CASE collect \in {"any", "first"} -> IF values = <<>> THEN Null ELSE Head(values)
      [] collect = "last" -> IF values = <<>> THEN Null ELSE values[Len(values)]
      [] collect = "all" -> Array(values)

IncompleteClaim(value, session_data) == [value |-> value, session_data |-> session_data]

ImplicitScope_resolve(self, scope, document, implicit_scopes) ==
    IF ~ContainsKey(implicit_scopes, scope)
    THEN IncompleteClaim(Null, self.session_data)
    ELSE IncompleteClaim(
            Collect(self.collect, ResolvedValues(<<>>, Get(implicit_scopes, scope), document, 1)),
            self.session_data)

\* ScopeExplicitMapping
MappingObject(properties) == [type |-> "object", properties |-> properties]
MappingTuple(items) == [type |-> "tuple", items |-> items]
MappingPath(ref_) == [type |-> "path", ref_ |-> ref_]

RECURSIVE ScopeExplicitMapping_resolve(_, _), ResolveProperties(_, _, _, _), ResolveItems(_, _, _, _)
ResolveProperties(object, properties, value, i) ==
    IF i > Len(properties) THEN object
    ELSE ResolveProperties(
            Insert(object, properties[i][1], ScopeExplicitMapping_resolve(properties[i][2], value)),
            properties, value, i + 1)

ResolveItems(array, items, value, i) ==
    IF i > Len(items) THEN array
    ELSE ResolveItems(Append(array, ScopeExplicitMapping_resolve(items[i], value)), items, value, i + 1)

ScopeExplicitMapping_resolve(self, value) ==
    CASE self.type = "object" -> Object(ResolveProperties(<<>>, self.properties, value, 1))
      [] self.type = "tuple" -> Array(ResolveItems(<<>>, self.items, value, 1))
      [] self.type = "path" ->
            LET r == PointerResolve(self.ref_, value)
            IN  IF r.ok THEN r.value ELSE Null

\* ExplicitScope::resolve with the null children of a top-level tuple left out
ExplicitScope_resolve_Dropping(self, document) ==
    LET value == ScopeExplicitMapping_resolve(self.mapping, document)
    IN  IncompleteClaim(
            IF value.t = "array" THEN Array(SelectSeq(value.a, LAMBDA x : x # Null)) ELSE value,
            self.session_data)

ExplicitScope_resolve(self, document) ==
    IncompleteClaim(ScopeExplicitMapping_resolve(self.mapping, document), self.session_data)

\* IncompleteClaim::complete
Claim(scope, incomplete) ==
    [scope |-> scope, value |-> incomplete.value, session_data |-> incomplete.session_data]

find_scope(self, scope) == IF ContainsKey(self, scope) THEN Some(Get(self, scope)) ELSE None

ScopeConfig_resolve(self, scope, document, implicit_scopes) ==
    LET mapping == find_scope(self, scope)
    IN  IF ~mapping.some THEN None
        ELSE Some(Claim(scope,
                IF mapping.v.type = "implicit"
                THEN ImplicitScope_resolve(mapping.v, scope, document, implicit_scopes)
                ELSE ExplicitScope_resolve(mapping.v, document)))

\* the first loop of resolve_all: the claims of the requested scopes, in plan order
RECURSIVE CollectClaims(_, _, _, _, _, _)
CollectClaims(acc, self, document, implicit_scopes, wanted, i) ==
    IF i > Len(self) THEN acc
    ELSE LET scope == self[i][1]
             c == ScopeConfig_resolve(self, scope, document, implicit_scopes)
         IN  CollectClaims(
                IF scope \notin wanted THEN acc
                ELSE IF c.some THEN Append(acc, c.v) ELSE acc,
                self, document, implicit_scopes, wanted, i + 1)

\* filter_map(...).collect() into a serde_json::Map, for one of the two tokens
RECURSIVE TokenMap(_, _, _, _)
TokenMap(map, cs, token, i) ==
    IF i > Len(cs) THEN map
    ELSE LET name == IF token = "id_token" THEN cs[i].session_data.id_token
                     ELSE cs[i].session_data.access_token
         IN  TokenMap(IF name.some THEN Insert(map, name.v, cs[i].value) ELSE map, cs, token, i + 1)

\* resolve_all without the requested.contains(scope) test
resolve_all_Unfiltered(self, document, implicit_scopes, wanted) ==
    LET cs == CollectClaims(<<>>, self, document, implicit_scopes, Range(Keys(self)), 1)
    IN  [id_token |-> Object(TokenMap(<<>>, cs, "id_token", 1)),
         access_token |-> Object(TokenMap(<<>>, cs, "access_token", 1))]

resolve_all(self, document, implicit_scopes, wanted) ==
    LET cs == CollectClaims(<<>>, self, document, implicit_scopes, wanted, 1)
    IN  [id_token |-> Object(TokenMap(<<>>, cs, "id_token", 1)),
         access_token |-> Object(TokenMap(<<>>, cs, "access_token", 1))]

(***************************************************************************)
(* Bounded inputs                                                          *)
(***************************************************************************)
PropertyNames == {"a", "b"}
\* "a" is also a property name; "t" is never declared nor annotated
Scopes == {"a", "s", "t"}

\* extensions found at the nodes below the root
NodeExtensions ==
    { NoExtension,
      ScopesList(<<StringItem("s")>>),
      ScopesList(<<StringItem("a"), StringItem("s")>>),
      ScopesList(<<StringItem("s"), NumberItem>>) }

\* schema nodes with at most d levels of properties below them (one property per level)
RECURSIVE Nodes(_)
Nodes(d) ==
    IF d = 0 THEN {SchemaObject(<<>>, e) : e \in NodeExtensions}
    ELSE {SchemaObject(<<>>, e) : e \in NodeExtensions}
         \cup {SchemaObject(<<<<k, n>>>>, e) : k \in PropertyNames, n \in Nodes(d - 1), e \in NodeExtensions}

SdBoth == SessionData(Some("n"), Some("m"))
SdId == SessionData(Some("m"), None)
SdNone == SessionData(None, None)

\* extensions found at the root: declared configurations, and values that are none
RootExtensions ==
    { NoExtension,
      OtherJson,
      ScopesList(<<StringItem("s")>>),
      ScopesMap(<<<<"s", Implicit("last", SdId)>>>>),
      ScopesMap(<<<<"a", Explicit(MappingPath(<<"b">>), SdBoth)>>>>),
      ScopesMap(<<<<"a", Implicit("all", SdNone)>>, <<"s", Implicit("any", SdBoth)>>>>),
      ScopesMap(<<<<"t", Implicit("first", SdBoth)>>>>),
      ScopesMap(<<<<"s", UnknownRule>>>>) }

\* root schemas: up to two first-level properties, in key order; the subtree under a
\* single property, or under "a", is up to MaxDepth - 1 levels deep, the one under a
\* second property "b" at most one
RootSchemas ==
    {SchemaObject(<<>>, e) : e \in RootExtensions}
    \cup {SchemaObject(<<<<k, n>>>>, e) : k \in PropertyNames, n \in Nodes(MaxDepth - 1), e \in RootExtensions}
    \cup {SchemaObject(<<<<"a", n1>>, <<"b", n2>>>>, e) :
            n1 \in Nodes(MaxDepth - 1), n2 \in Nodes(1), e \in RootExtensions}

\* trait documents
TraitDocs ==
    { Object(<<<<"a", String("1")>>, <<"b", String("2")>>>>),
      Object(<<<<"a", Object(<<<<"b", String("3")>>>>)>>>>),
      Object(<<<<"a", Null>>, <<"b", String("2")>>>>) }

Pointers == {<<"a">>, <<"b">>, <<"a", "b">>}

RECURSIVE SeqsUpTo(_, _)
SeqsUpTo(S, n) ==
    IF n = 0 THEN {<<>>}
    ELSE LET shorter == SeqsUpTo(S, n - 1)
         IN  shorter \cup {Append(q, x) : q \in shorter, x \in S}

\* Implicit Indices: "s" with every pointer list up to MaxPointers, "a" with one pointer or absent
Indexes ==
    LET lists == SeqsUpTo(Pointers, MaxPointers) \ {<<>>}
        forS == {<<>>} \cup {<<<<"s", l>>>> : l \in lists}
        forA == {<<>>, <<<<"a", <<<<"a">>>> >>>>}
    IN  {x \o y : x \in forS, y \in forA}

Rules ==
    {Implicit(c, SdBoth) : c \in {"first", "last", "any", "all"}}
    \cup { Implicit("first", SdId), Implicit("all", SdNone),
           Explicit(MappingPath(<<"a", "b">>), SdBoth),
           Explicit(MappingObject(<<<<"k", MappingPath(<<"b">>)>>>>), SdId) }

\* Explicit rules with Composite Mappings: tuples, nested nodes, empty nodes
ExplicitRules ==
    { Explicit(MappingTuple(<<MappingPath(<<"a">>), MappingPath(<<"a", "b">>), MappingPath(<<"b">>)>>), SdBoth),
      Explicit(MappingTuple(<<>>), SdBoth),
      Explicit(MappingObject(<<>>), SdBoth),
      Explicit(MappingObject(<<<<"k", MappingPath(<<"a", "b">>)>>,
                               <<"j", MappingTuple(<<MappingPath(<<"b">>), MappingPath(<<"a">>)>>)>>>>), SdBoth),
      Explicit(MappingTuple(<<MappingObject(<<<<"k", MappingPath(<<"b">>)>>>>), MappingPath(<<>>)>>), SdId) }

\* Scope Plans over the scopes "s" and "a"
Plans ==
    {<<>>}
    \cup {<<<<k, r>>>> : k \in {"s", "a"}, r \in Rules \cup ExplicitRules}
    \cup {<<<<k1, r1>>, <<k2, r2>>>> : k1 \in {"s"}, k2 \in {"a"}, r1 \in Rules, r2 \in Rules}
    \cup {<<<<k1, r1>>, <<k2, r2>>>> : k1 \in {"a"}, k2 \in {"s"}, r1 \in Rules, r2 \in Rules}

NoClaims == [id_token |-> Object(<<>>), access_token |-> Object(<<>>)]

(***************************************************************************)
(* The schema cache at rest (shared by the initial states)                 *)
(***************************************************************************)
Tasks == {"t1", "t2"}
SchemaIds == {"default", "customer"}

CacheInit ==
    /\ data = <<>>
    /\ readers = {}
    /\ writer = {}
    /\ pc = [p \in Tasks |-> "idle"]
    /\ arg = [p \in Tasks |-> "default"]
    /\ response = [p \in Tasks |-> None]
    /\ built = [p \in Tasks |-> None]
    /\ result = [p \in Tasks |-> None]
    /\ calls = [p \in Tasks |-> 0]
    /\ hit = [p \in Tasks |-> FALSE]
    /\ external = [p \in Tasks |-> 0]
    /\ served = [i \in SchemaIds |-> {}]
    /\ writes = [i \in SchemaIds |-> 0]

(***************************************************************************)
(* CompileSpec: validate::fetch lines 57-62 on every root schema           *)
(***************************************************************************)
CompileInit ==
    /\ CacheInit
    /\ stage = "schema"
    /\ schema \in RootSchemas
    /\ direct_mapping \in BOOLEAN
    /\ cache = ImplicitScopeCache_new
    /\ config = ScopeConfig_empty
    /\ traits = Null
    /\ requested = {}
    /\ claims = NoClaims
    /\ claim = None
    /\ operand = ImplicitScopeCache_new

\* let cache = ImplicitScope::find(keyword, schema.clone(), vec![]);
Scan ==
    /\ stage = "schema"
    /\ cache' = find(schema, <<>>)
    /\ stage' = "scanned"
    /\ UNCHANGED <<cacheVars, schema, direct_mapping, config, traits, requested, claims, claim, operand>>

\* let config = ScopeConfig::from_root(keyword, schema, &cache, direct_mapping);
Compile ==
    /\ stage = "scanned"
    /\ LET r == from_root(schema, cache, direct_mapping)
       IN  config' = r.config /\ cache' = r.cache
    /\ stage' = "compiled"
    /\ UNCHANGED <<cacheVars, schema, direct_mapping, traits, requested, claims, claim, operand>>

CompileNext == Scan \/ Compile

CompileSpec == CompileInit /\ [][CompileNext]_vars

(***************************************************************************)
(* ResolveSpec: Schema::resolve on every plan, index, document, request    *)
(***************************************************************************)
ResolveInit ==
    /\ CacheInit
    /\ stage = "compiled"
    /\ schema = SchemaObject(<<>>, NoExtension)
    /\ direct_mapping = FALSE
    /\ cache \in Indexes
    /\ config \in Plans
    /\ traits \in TraitDocs
    /\ requested = {}
    /\ claims = NoClaims
    /\ claim = None
    /\ operand = ImplicitScopeCache_new

ResolveOne(scope) ==
    /\ stage = "compiled"
    /\ claim' = ScopeConfig_resolve(config, scope, traits, cache)
    /\ requested' = {scope}
    /\ stage' = "resolved"
    /\ UNCHANGED <<cacheVars, schema, direct_mapping, cache, config, traits, claims, operand>>

ResolveAll(wanted) ==
    /\ stage = "compiled"
    /\ claims' = resolve_all(config, traits, cache, wanted)
    /\ requested' = wanted
    /\ stage' = "resolved_all"
    /\ UNCHANGED <<cacheVars, schema, direct_mapping, cache, config, traits, claim, operand>>

ResolveNext ==
    \/ \E scope \in Scopes : ResolveOne(scope)
    \/ \E wanted \in SUBSET Scopes : ResolveAll(wanted)

ResolveSpec == ResolveInit /\ [][ResolveNext]_vars

(***************************************************************************)
(* MergeSpec: ImplicitScopeCache::merge on every pair of indices           *)
(***************************************************************************)
\* the operands: the indices above, indices listing "a" before "s", and indices with
\* the scope "t", with a repeated pointer and with an empty pointer list
MergeOperands ==
    Indexes
    \cup {<<<<"a", <<p>>>>, <<"s", <<q>>>>>> : p \in Pointers, q \in Pointers}
    \cup {<<<<"t", <<p>>>>, <<"a", <<q, p, q>>>>>> : p \in Pointers, q \in Pointers}
    \cup {<<<<"t", <<>>>>>>}

MergeInit ==
    /\ CacheInit
    /\ stage = "operands"
    /\ schema = SchemaObject(<<>>, NoExtension)
    /\ direct_mapping = FALSE
    /\ cache \in MergeOperands
    /\ operand \in MergeOperands
    /\ config = ScopeConfig_empty
    /\ traits = Null
    /\ requested = {}
    /\ claims = NoClaims
    /\ claim = None

\* self.merge(other)
Merge ==
    /\ stage = "operands"
    /\ cache' = ImplicitScopeCache_merge(cache, operand)
    /\ stage' = "merged"
    /\ UNCHANGED <<cacheVars, schema, direct_mapping, config, traits, requested, claims, claim, operand>>

MergeNext == Merge

MergeSpec == MergeInit /\ [][MergeNext]_vars

(***************************************************************************)
(* validate.rs: fetch                                                      *)
(* An identity schema document is [properties |-> None or Some([traits |-> *)
(* None or Some(value)])]; value is a schema object or some other JSON.    *)
(***************************************************************************)
IdentitySchema(properties) == [properties |-> properties]
Properties(traits_) == [traits |-> traits_]
\* a "traits" value that does not deserialize as a SchemaObject
NotASchema == [is_schema |-> FALSE]
TraitsSchema(s) == [is_schema |-> TRUE, schema |-> s]

Ok(v) == [ok |-> TRUE, v |-> v]
Err(e) == [ok |-> FALSE, e |-> e]

\* get_identity_schema answered with a document, or failed
Retrieved(document) == [retrieved |-> TRUE, document |-> document]
RetrievalFailed == [retrieved |-> FALSE]

\* lines 57-62: scan, compile, return (cache, config)
BuildSchema(root, direct) ==
    LET r == from_root(root, find(root, <<>>), direct)
    IN  [cache |-> r.cache, config |-> r.config]

\* a "traits" value that is no schema object taken for the empty schema
validate_fetch_Lenient(answer, direct) ==
    IF ~answer.retrieved THEN Err("Kratos")
    ELSE IF ~answer.document.properties.some THEN Err("IdentitySchemaMalformed")
    ELSE IF ~answer.document.properties.v.traits.some THEN Err("IdentitySchemaMalformed")
    ELSE IF ~answer.document.properties.v.traits.v.is_schema
         THEN Ok(BuildSchema(SchemaObject(<<>>, NoExtension), direct))
    ELSE Ok(BuildSchema(answer.document.properties.v.traits.v.schema, direct))

validate_fetch(answer, direct) ==
    IF ~answer.retrieved THEN Err("Kratos")
    ELSE IF ~answer.document.properties.some THEN Err("IdentitySchemaMalformed")
    ELSE IF ~answer.document.properties.v.traits.some THEN Err("IdentitySchemaMalformed")
    ELSE IF ~answer.document.properties.v.traits.v.is_schema THEN Err("IdentitySchemaMalformed")
    ELSE Ok(BuildSchema(answer.document.properties.v.traits.v.schema, direct))

\* the trait schemas the identity provider may hold
EmailSchema ==
    SchemaObject(<<<<"a", SchemaObject(<<>>, ScopesList(<<StringItem("s")>>))>>>>, NoExtension)
NameSchema ==
    SchemaObject(<<<<"a", SchemaObject(<<>>, NoExtension)>>, <<"b", SchemaObject(<<>>, NoExtension)>>>>,
                 ScopesMap(<<<<"s", Implicit("last", SdId)>>>>))

KratosAnswers ==
    { RetrievalFailed,
      Retrieved(IdentitySchema(None)),
      Retrieved(IdentitySchema(Some(Properties(None)))),
      Retrieved(IdentitySchema(Some(Properties(Some(NotASchema))))),
      Retrieved(IdentitySchema(Some(Properties(Some(TraitsSchema(EmailSchema)))))),
      Retrieved(IdentitySchema(Some(Properties(Some(TraitsSchema(NameSchema)))))) }

(***************************************************************************)
(* cache.rs: SchemaCache                                                   *)
(***************************************************************************)
\* an insert that rebuilds the map from the new entry alone
SchemaCache_insert_Clear(map, id, s) == <<<<id, s>>>>

\* an insert whose write is lost
SchemaCache_insert_Lost(map, id, s) == map

\* lock.insert(id, Arc::new(schema))
\* insert into a map of capacity one: past it, only the last entry is kept
SchemaCache_insert_Evicting(map, id, s) ==
    LET inserted == Insert(map, id, s)
    IN  IF Len(inserted) > 1 THEN SubSeq(inserted, Len(inserted), Len(inserted)) ELSE inserted

SchemaCache_insert(map, id, s) == Insert(map, id, s)

\* lock.contains_key(id)
SchemaCache_contains_key(map, id) == ContainsKey(map, id)

\* the read guard kept alive past the end of the function
ReleaseRead_Kept(holders, p) == holders

\* dropping the read guard at the end of contains_key / get_or_panic
ReleaseRead(holders, p) == holders \ {p}

\* fetch going on to validate::fetch whatever contains_key returned
AfterContainsKey_Ignored(found) == "fetch"

\* the branch of fetch on the result of contains_key
AfterContainsKey(found) == IF found THEN "get_or_panic" ELSE "fetch"

\* the `?` of fetch on the result of validate::fetch
AfterFetch(r) == IF r.ok THEN "insert" ELSE "idle"

CacheKeep == UNCHANGED pureVars

\* a request handler calls cache.fetch(config, id)
Call(p, id) ==
    /\ pc[p] = "idle"
    /\ calls[p] < MaxCalls
    /\ calls' = [calls EXCEPT ![p] = @ + 1]
    /\ arg' = [arg EXCEPT ![p] = id]
    /\ pc' = [pc EXCEPT ![p] = "contains_key"]
    /\ hit' = [hit EXCEPT ![p] = FALSE]
    /\ external' = [external EXCEPT ![p] = 0]
    /\ response' = [response EXCEPT ![p] = None]
    /\ built' = [built EXCEPT ![p] = None]
    /\ result' = [result EXCEPT ![p] = None]
    /\ UNCHANGED <<data, readers, writer, served, writes>>
    /\ CacheKeep

\* contains_key: self.data.read().await
ContainsKeyLock(p) ==
    /\ pc[p] = "contains_key"
    /\ writer = {}
    /\ readers' = readers \cup {p}
    /\ pc' = [pc EXCEPT ![p] = "contains_key_locked"]
    /\ UNCHANGED <<data, writer, arg, response, built, result, calls, hit, external, served, writes>>
    /\ CacheKeep

\* contains_key: lock.contains_key(id), guard dropped, and the if of fetch
ContainsKeyRead(p) ==
    /\ pc[p] = "contains_key_locked"
    /\ LET found == SchemaCache_contains_key(data, arg[p])
       IN  /\ hit' = [hit EXCEPT ![p] = found]
           /\ pc' = [pc EXCEPT ![p] = AfterContainsKey(found)]
    /\ readers' = ReleaseRead(readers, p)
    /\ UNCHANGED <<data, writer, arg, response, built, result, calls, external, served, writes>>
    /\ CacheKeep

\* validate::fetch: the request to the identity provider is sent
FetchStart(p) ==
    /\ pc[p] = "fetch"
    /\ external' = [external EXCEPT ![p] = @ + 1]
    /\ pc' = [pc EXCEPT ![p] = "fetching"]
    /\ UNCHANGED <<data, readers, writer, arg, response, built, result, calls, hit, served, writes>>
    /\ CacheKeep

\* validate::fetch returns: the answer arrives, is parsed and compiled; `?` in fetch
FetchReturn(p, answer) ==
    /\ pc[p] = "fetching"
    /\ LET r == validate_fetch(answer, direct_mapping)
       IN  /\ pc' = [pc EXCEPT ![p] = AfterFetch(r)]
           /\ built' = [built EXCEPT ![p] = IF r.ok THEN Some(r.v) ELSE None]
           /\ result' = [result EXCEPT ![p] = IF r.ok THEN None ELSE Some(Err(r.e))]
    /\ response' = [response EXCEPT ![p] = Some(answer)]
    /\ served' = [served EXCEPT ![arg[p]] = @ \cup {validate_fetch(answer, direct_mapping)}]
    /\ UNCHANGED <<data, readers, writer, arg, calls, hit, external, writes>>
    /\ CacheKeep

\* insert: self.data.write().await
InsertLock(p) ==
    /\ pc[p] = "insert"
    /\ writer = {}
    /\ readers = {}
    /\ writer' = {p}
    /\ pc' = [pc EXCEPT ![p] = "insert_locked"]
    /\ UNCHANGED <<data, readers, arg, response, built, result, calls, hit, external, served, writes>>
    /\ CacheKeep

\* insert: lock.insert(id, Arc::new(schema)), guard dropped
InsertWrite(p) ==
    /\ pc[p] = "insert_locked"
    /\ data' = SchemaCache_insert(data, arg[p], built[p].v)
    /\ writes' = [writes EXCEPT ![arg[p]] = @ + 1]
    /\ writer' = writer \ {p}
    /\ built' = [built EXCEPT ![p] = None]
    /\ pc' = [pc EXCEPT ![p] = "get_or_panic"]
    /\ UNCHANGED <<readers, arg, response, result, calls, hit, external, served>>
    /\ CacheKeep

\* get_or_panic: self.data.read().await
GetLock(p) ==
    /\ pc[p] = "get_or_panic"
    /\ writer = {}
    /\ readers' = readers \cup {p}
    /\ pc' = [pc EXCEPT ![p] = "get_or_panic_locked"]
    /\ UNCHANGED <<data, writer, arg, response, built, result, calls, hit, external, served, writes>>
    /\ CacheKeep

\* get_or_panic: Arc::clone(&lock[id]) (indexing panics on a missing key), guard
\* dropped, Ok(..) returned by fetch
GetRead(p) ==
    /\ pc[p] = "get_or_panic_locked"
    /\ IF SchemaCache_contains_key(data, arg[p])
       THEN /\ result' = [result EXCEPT ![p] = Some(Ok(Get(data, arg[p])))]
            /\ pc' = [pc EXCEPT ![p] = "idle"]
       ELSE /\ result' = result
            /\ pc' = [pc EXCEPT ![p] = "panicked"]
    /\ readers' = ReleaseRead(readers, p)
    /\ UNCHANGED <<data, writer, arg, response, built, calls, hit, external, served, writes>>
    /\ CacheKeep

\* the steps of a call in progress
Step(p) ==
    \/ ContainsKeyLock(p)
    \/ ContainsKeyRead(p)
    \/ FetchStart(p)
    \/ \E answer \in KratosAnswers : FetchReturn(p, answer)
    \/ InsertLock(p)
    \/ InsertWrite(p)
    \/ GetLock(p)
    \/ GetRead(p)

\* SchemaCache::new(keyword, direct_mapping) with the flag set: the flag is never
\* written again and only selects what validate::fetch compiles
Init ==
    /\ CacheInit
    /\ stage = "serving"
    /\ schema = SchemaObject(<<>>, NoExtension)
    /\ direct_mapping = TRUE
    /\ cache = ImplicitScopeCache_new
    /\ config = ScopeConfig_empty
    /\ traits = Null
    /\ requested = {}
    /\ claims = NoClaims
    /\ claim = None
    /\ operand = ImplicitScopeCache_new

Next ==
    \/ \E p \in Tasks, id \in SchemaIds : Call(p, id)
    \/ \E p \in Tasks : ContainsKeyLock(p)
    \/ \E p \in Tasks : ContainsKeyRead(p)
    \/ \E p \in Tasks : FetchStart(p)
    \/ \E p \in Tasks, answer \in KratosAnswers : FetchReturn(p, answer)
    \/ \E p \in Tasks : InsertLock(p)
    \/ \E p \in Tasks : InsertWrite(p)
    \/ \E p \in Tasks : GetLock(p)
    \/ \E p \in Tasks : GetRead(p)

Spec == Init /\ [][Next]_vars

\* every task that is inside a call is eventually scheduled, the identity provider
\* eventually answers, and a free lock is eventually granted
FairSpec == Spec /\ \A p \in Tasks : WF_vars(Step(p))

(***************************************************************************)
(* Claims about the schema cache                                           *)
(***************************************************************************)
InFlight(p) == pc[p] \notin {"idle", "panicked"}
Returned(p) == pc[p] = "idle" /\ result[p].some
ReturnedOk(p) == Returned(p) /\ result[p].v.ok

\* C1: a fetch(id) call whose existence check observed an entry for id never invokes
\* the external fetch-and-compile path (it is never at, nor past, validate::fetch and
\* holds nothing built), and the step that ends it returns Ok with the entry stored
\* under id.
C1_HitSkipsExternal ==
    /\ [](\A p \in Tasks : hit[p] =>
            /\ external[p] = 0
            /\ built[p] = None
            /\ response[p] = None
            /\ pc[p] \in {"get_or_panic", "get_or_panic_locked", "idle"}
            /\ pc[p] = "idle" => ReturnedOk(p))
    /\ [][\A p \in Tasks : (hit[p] /\ pc[p] = "get_or_panic_locked" /\ pc'[p] # pc[p]) =>
            /\ pc'[p] = "idle"
            /\ SchemaCache_contains_key(data, arg[p])
            /\ result'[p] = Some(Ok(Get(data, arg[p])))]_vars

\* C1 witness: a call returned a cached entry on the hit path while another call is in progress
C1_Witness ==
    \E p \in Tasks, q \in Tasks :
        /\ p # q
        /\ hit[p] /\ ReturnedOk(p) /\ external[p] = 0
        /\ result[p].v.v = Get(data, arg[p])
        /\ pc[q] = "fetching"

\* C2 (as claimed): once an entry has been inserted for a schema id no later insertion
\* replaces it: each id is written at most once.
C2_WrittenAtMostOnce == \A id \in SchemaIds : writes[id] <= 1

\* C2 (amended): a key of the map is never removed, and every insertion under an id,
\* the replacing ones included, is the single write of a fetch call whose own existence
\* check found the id absent; a call that observed the entry never writes.
C2_KeysAppendOnly ==
    [][\A id \in SchemaIds :
        /\ SchemaCache_contains_key(data, id) => SchemaCache_contains_key(data', id)
        /\ (writes'[id] # writes[id]
            \/ SchemaCache_contains_key(data, id) # SchemaCache_contains_key(data', id)
            \/ (SchemaCache_contains_key(data, id) /\ Get(data', id) # Get(data, id)))
           => \E p \in Tasks :
                /\ pc[p] = "insert_locked" /\ pc'[p] = "get_or_panic"
                /\ arg[p] = id
                /\ ~hit[p]
                /\ external[p] = 1
                /\ writes'[id] = writes[id] + 1
                /\ Get(data', id) = built[p].v]_vars

\* C2 witness: an id has been written twice, the second write replacing the entry with
\* a different Compiled Schema
C2_Witness ==
    \E id \in SchemaIds :
        /\ writes[id] = 2
        /\ Cardinality({r \in served[id] : r.ok}) = 2

\* C3: no task holds the read or the write lock while its external fetch is in
\* progress: a guard is held only inside contains_key, insert and get_or_panic, none
\* of which waits for anything while holding it, and when every call in progress is at
\* its external fetch the lock is free. So a call for a cached id is never kept waiting
\* by a pending external fetch.
C3_NoLockAcrossFetch ==
    /\ \A p \in Tasks :
        /\ pc[p] \in {"fetch", "fetching"} => (p \notin readers /\ p \notin writer)
        /\ p \in readers => pc[p] \in {"contains_key_locked", "get_or_panic_locked"}
        /\ p \in writer => pc[p] = "insert_locked"
        /\ pc[p] \in {"contains_key_locked", "get_or_panic_locked"} => p \in readers
        /\ pc[p] = "insert_locked" => (writer = {p} /\ readers = {})
    /\ (\A p \in Tasks : pc[p] \in {"idle", "fetch", "fetching", "panicked"}) =>
            (readers = {} /\ writer = {})

\* C3 witness: a call on the hit path holds the read guard of get_or_panic while
\* another call's external fetch is pending
C3_Witness ==
    \E p \in Tasks, q \in Tasks :
        /\ pc[q] = "fetching" /\ external[q] = 1
        /\ hit[p] /\ pc[p] = "get_or_panic_locked" /\ p \in readers

\* what the caller must get for an answer of the identity provider
ExpectedError(answer) ==
    IF ~answer.retrieved THEN "Kratos"
    ELSE IF ~answer.document.properties.some THEN "IdentitySchemaMalformed"
    ELSE IF ~answer.document.properties.v.traits.some THEN "IdentitySchemaMalformed"
    ELSE IF ~answer.document.properties.v.traits.v.is_schema THEN "IdentitySchemaMalformed"
    ELSE "none"

\* the Compiled Schemas built for id so far
Compiled(id) == {r.v : r \in {x \in served[id] : x.ok}}

\* C4: under fair scheduling every call returns (no deadlock, no panic), and a call
\* whose external fetch succeeded returns Ok; when every external fetch for an id
\* produced the same Compiled Schema, every Compiled Schema returned for that id
\* equals the others and the entry left in the cache.
C4_ConcurrentMisses ==
    /\ [](\A p \in Tasks : pc[p] # "panicked")
    /\ <>[](\A p \in Tasks : pc[p] = "idle" /\ (calls[p] > 0 => Returned(p)))
    /\ [](\A p \in Tasks :
            (Returned(p) /\ response[p].some /\ ExpectedError(response[p].v) = "none")
                => ReturnedOk(p))
    /\ [](\A p \in Tasks, q \in Tasks :
            (/\ ReturnedOk(p) /\ ReturnedOk(q) /\ arg[p] = arg[q]
             /\ Cardinality(Compiled(arg[p])) = 1)
            => /\ result[p].v.v = result[q].v.v
               /\ SchemaCache_contains_key(data, arg[p])
               /\ result[p].v.v = Get(data, arg[p])
               /\ {result[p].v.v} = Compiled(arg[p]))

\* C4 witness: two calls for the same unseen id both missed, both invoked the external
\* fetch, both were served the same document and both returned Ok
C4_Witness ==
    \E p \in Tasks, q \in Tasks :
        /\ p # q /\ arg[p] = arg[q]
        /\ calls[p] = 1 /\ calls[q] = 1
        /\ ~hit[p] /\ ~hit[q]
        /\ external[p] = 1 /\ external[q] = 1
        /\ response[p] = response[q] /\ response[p].some
        /\ Cardinality(Compiled(arg[p])) = 1
        /\ ReturnedOk(p) /\ ReturnedOk(q)
        /\ writes[arg[p]] = 2
        /\ result[p].v.v = result[q].v.v

\* C8: when the retrieval fails or the document is malformed, the step that ends the
\* external fetch returns Err (Kratos, resp. IdentitySchemaMalformed) and leaves the
\* map unchanged; only a call that was served a well-formed document ever changes the
\* map; and an existence check that finds the id absent goes on to the external fetch.
C8_FailedFetch ==
    /\ [][\A p \in Tasks : (pc[p] = "fetching" /\ pc'[p] # "fetching") =>
            (ExpectedError(response'[p].v) # "none" =>
                /\ pc'[p] = "idle"
                /\ result'[p] = Some(Err(ExpectedError(response'[p].v)))
                /\ built'[p] = None
                /\ data' = data
                /\ writes' = writes)]_vars
    /\ [][(data' # data \/ writes' # writes) =>
            \E p \in Tasks :
                /\ pc[p] = "insert_locked"
                /\ response[p].some
                /\ ExpectedError(response[p].v) = "none"]_vars
    /\ [][\A p \in Tasks :
            (pc[p] = "contains_key_locked" /\ pc'[p] # pc[p]
             /\ ~SchemaCache_contains_key(data, arg[p])) => pc'[p] = "fetch"]_vars
    /\ [](\A p \in Tasks : (Returned(p) /\ ~result[p].v.ok) =>
            /\ ~hit[p] /\ external[p] = 1 /\ built[p] = None
            /\ response[p].some
            /\ result[p].v.e = ExpectedError(response[p].v))

\* C8 witness: a task's first call for an id failed, the id is still absent, and the
\* task's second call for the same id is again at the external fetch
C8_Witness ==
    \E p \in Tasks, id \in SchemaIds :
        /\ calls[p] = 2 /\ arg[p] = id /\ pc[p] = "fetching" /\ external[p] = 1
        /\ \A q \in Tasks \ {p} : calls[q] = 0
        /\ served[id] # {}
        /\ \A r \in served[id] : ~r.ok
        /\ ~SchemaCache_contains_key(data, id)
        /\ writes[id] = 0

\* the task is at get_or_panic: before or after taking its read guard
AtGetOrPanic(p) == pc[p] \in {"get_or_panic", "get_or_panic_locked"}

\* C14: no fetch call panics: whenever a task is at get_or_panic(id), after a true
\* existence check or after its own insert, the map contains id, and the step that
\* reads the entry returns Ok with it; the key set of the map only grows.
C14_NeverPanics ==
    /\ [](\A p \in Tasks :
            /\ pc[p] # "panicked"
            /\ AtGetOrPanic(p) =>
                    /\ SchemaCache_contains_key(data, arg[p])
                    /\ hit[p] \/ external[p] = 1)
    /\ [][\A p \in Tasks : (pc[p] = "get_or_panic_locked" /\ pc'[p] # pc[p]) =>
            /\ pc'[p] = "idle"
            /\ result'[p] = Some(Ok(Get(data, arg[p])))]_vars
    /\ [][\A id \in SchemaIds :
            SchemaCache_contains_key(data, id) => SchemaCache_contains_key(data', id)]_vars

\* C14 witness: one task is at get_or_panic after a true existence check whose read
\* guard it has released, while the other task holds the write guard to insert
\* another id
C14_Witness ==
    \E p \in Tasks, q \in Tasks :
        /\ p # q
        /\ pc[p] = "get_or_panic" /\ hit[p] /\ p \notin readers
        /\ pc[q] = "insert_locked" /\ arg[q] # arg[p]
        /\ writer = {q}
        /\ SchemaCache_contains_key(data, arg[p])

(***************************************************************************)
(* Claims about the configuration compiler                                 *)
(***************************************************************************)
\* the rules declared in the root configuration: the root extension when all of it is
\* a {"scopes": {scope: rule}} object, nothing otherwise
Declared ==
    IF schema.extension.shape = "map"
       /\ \A i \in DOMAIN schema.extension.entries :
            schema.extension.entries[i][2].type \in {"implicit", "explicit"}
    THEN schema.extension.entries
    ELSE <<>>

IsDeclared(s) == \E i \in DOMAIN Declared : Declared[i][1] = s
FirstLevel == {schema.object[i][1] : i \in DOMAIN schema.object}
ImplicitDefault(s) == Implicit("first", SessionData(Some(s), Some(s)))
CompileStep == stage = "scanned" /\ stage' = "compiled"

\* C5: compiling keeps every declared rule exactly as declared; every scope of the
\* Implicit Index that is not declared gets the implicit default rule, and the
\* direct-mapping pass leaves it (and its pointers) alone; every other scope of the plan
\* was inserted by the direct-mapping pass for a first-level property name.
C5_Precedence ==
    [][CompileStep =>
        /\ \A i \in DOMAIN Declared :
            /\ ContainsKey(config', Declared[i][1])
            /\ Get(config', Declared[i][1]) = Declared[i][2]
        /\ \A i \in DOMAIN cache :
            /\ ContainsKey(cache', cache[i][1])
            /\ Get(cache', cache[i][1]) = cache[i][2]
            /\ ContainsKey(config', cache[i][1])
            /\ ~IsDeclared(cache[i][1]) => Get(config', cache[i][1]) = ImplicitDefault(cache[i][1])
        /\ \A i \in DOMAIN config' :
            (~IsDeclared(config'[i][1]) /\ ~ContainsKey(cache, config'[i][1])) =>
                /\ direct_mapping
                /\ config'[i][1] \in FirstLevel
        /\ \A i \in DOMAIN cache' :
            ~ContainsKey(cache, cache'[i][1]) =>
                /\ direct_mapping
                /\ cache'[i][1] \in FirstLevel
                /\ ~IsDeclared(cache'[i][1])
        /\ \A i \in DOMAIN config', j \in DOMAIN config' : config'[i][1] = config'[j][1] => i = j
      ]_vars

\* C5 witness: direct mapping is on; "a" is declared, annotated and a first-level
\* property and keeps its declared rule; "s" is annotated only and has the implicit
\* default; "b" is a first-level property only and was direct-mapped
C5_Witness ==
    /\ stage = "compiled"
    /\ direct_mapping
    /\ IsDeclared("a") /\ "a" \in FirstLevel /\ ContainsKey(cache, "a")
    /\ Get(config, "a") # ImplicitDefault("a")
    /\ ~IsDeclared("s") /\ ContainsKey(cache, "s") /\ Get(config, "s") = ImplicitDefault("s")
    /\ ~IsDeclared("b") /\ "b" \in FirstLevel /\ ContainsKey(config, "b")
    /\ Get(cache, "b") = <<<<"b">>>>

\* C9: with direct_mapping on, every first-level property name p that is neither
\* declared nor a scope of the Implicit Index is mapped by the plan to
\* Implicit(First, {idToken: p, accessToken: p}) and by the Implicit Index to exactly
\* the pointer list ["/p"]; with direct_mapping off no such rule is added and the
\* Implicit Index is unchanged; in both cases every rule of the plan that is not
\* declared is Implicit and its scope has an entry in the Implicit Index.
C9_DirectMapping ==
    [][CompileStep =>
        /\ direct_mapping =>
            \A p \in FirstLevel : (~IsDeclared(p) /\ ~ContainsKey(cache, p)) =>
                /\ ContainsKey(config', p)
                /\ Get(config', p) = ImplicitDefault(p)
                /\ ContainsKey(cache', p)
                /\ Get(cache', p) = <<<<p>>>>
        /\ ~direct_mapping =>
            /\ cache' = cache
            /\ \A p \in FirstLevel : (~IsDeclared(p) /\ ~ContainsKey(cache, p)) => ~ContainsKey(config', p)
        /\ \A i \in DOMAIN config' : ~IsDeclared(config'[i][1]) =>
            /\ config'[i][2].type = "implicit"
            /\ ContainsKey(cache', config'[i][1])
            /\ Get(cache', config'[i][1]) # <<>>
      ]_vars

\* C9 witness: direct mapping is on and the first-level properties "a" and "b", neither
\* declared nor annotated, got the synthesised rule and the one-pointer index entry
C9_Witness ==
    /\ stage = "compiled"
    /\ direct_mapping
    /\ FirstLevel = {"a", "b"}
    /\ Declared # <<>>
    /\ \A p \in FirstLevel :
        /\ ~IsDeclared(p)
        /\ Get(config, p) = ImplicitDefault(p)
        /\ Get(cache, p) = <<<<p>>>>
    /\ ContainsKey(cache, "s")

(***************************************************************************)
(* Claims about the annotation scanner                                     *)
(***************************************************************************)
\* the extension parses as {"scopes": [Scope, ...]}
WellFormed(extension) ==
    /\ extension.shape = "list"
    /\ \A i \in DOMAIN extension.items : extension.items[i].type = "string"

Malformed(extension) == extension.shape # "absent" /\ ~WellFormed(extension)

\* the nodes of a schema with their paths
RECURSIVE NodesAt(_, _)
NodesAt(node, path) ==
    {<<path, node>>}
    \cup UNION {NodesAt(node.object[i][2], Append(path, node.object[i][1])) : i \in DOMAIN node.object}

\* the same schema with every malformed extension removed
RECURSIVE WithoutMalformed(_)
WithoutMalformed(node) ==
    SchemaObject(
        [i \in DOMAIN node.object |-> <<node.object[i][1], WithoutMalformed(node.object[i][2])>>],
        IF Malformed(node.extension) THEN NoExtension ELSE node.extension)

Lists(extension, s) == \E i \in DOMAIN extension.items : extension.items[i].v = s

\* C10: the scan of every schema yields an Implicit Index (scopes mapped to non-empty
\* lists of paths of the schema's nodes); the index holds, for a scope, exactly the
\* paths of the nodes whose extension is well-formed and lists the scope (so a node
\* with a malformed extension contributes nothing for its own path), and it is the
\* index of the same schema with the malformed extensions removed.
C10_ScannerTolerance ==
    stage = "scanned" =>
        /\ cache = find(WithoutMalformed(schema), <<>>)
        /\ \A pn \in NodesAt(schema, <<>>), s \in Scopes :
            (ContainsKey(cache, s) /\ pn[1] \in Range(Get(cache, s)))
            <=> (WellFormed(pn[2].extension) /\ Lists(pn[2].extension, s))
        /\ \A i \in DOMAIN cache :
            /\ cache[i][1] \in Scopes
            /\ cache[i][2] # <<>>
            /\ \A j \in DOMAIN cache[i][2] : \E pn \in NodesAt(schema, <<>>) : pn[1] = cache[i][2][j]

\* C10 witness: the node /a has a malformed extension that lists "s" before a number;
\* its child /a/b and its sibling /b are annotated and are in the index, /a is not
C10_Witness ==
    /\ stage = "scanned"
    /\ \E pn \in NodesAt(schema, <<>>) :
        /\ pn[1] = <<"a">>
        /\ Malformed(pn[2].extension)
        /\ pn[2].extension.shape = "list"
    /\ ContainsKey(cache, "s")
    /\ <<"a", "b">> \in Range(Get(cache, "s"))
    /\ <<"b">> \in Range(Get(cache, "s"))
    /\ <<"a">> \notin Range(Get(cache, "s"))

\* p is a proper prefix of q: the node at p is an ancestor of the node at q
IsProperPrefix(p, q) == Len(p) < Len(q) /\ SubSeq(q, 1, Len(p)) = p

\* the nodes of the schema whose extension parses and lists the scope
Listing(s) ==
    {pn \in NodesAt(schema, <<>>) : WellFormed(pn[2].extension) /\ Lists(pn[2].extension, s)}

\* the values Collect receives for the scope on a trait document
ScannedValues(s, document) == ResolvedValues(<<>>, Get(cache, s), document, 1)

\* C13 as claimed: when a node and one of its descendants list the same scope, the
\* node's own pointer comes before the descendant's pointer in the scope's list.
C13_OwnPointerFirst ==
    stage = "scanned" =>
        \A s \in Scopes : \A n \in Listing(s), d \in Listing(s) :
            IsProperPrefix(n[1], d[1]) =>
                \A i \in DOMAIN Get(cache, s), j \in DOMAIN Get(cache, s) :
                    (Get(cache, s)[i] = n[1] /\ Get(cache, s)[j] = d[1]) => i < j

\* C13 amended: the node's own extension is handled after descending, so when a node
\* and one of its descendants list the same scope, the descendant's pointer comes
\* before the node's own pointer in the scope's list; on a trait document where the
\* descendant's pointer resolves and the node is an ancestor of every other node
\* listing the scope, Collect Last gives the value at the node's pointer and Collect
\* First the value at a descendant's pointer.
C13_DescendantsFirst ==
    stage = "scanned" =>
        \A s \in Scopes : \A n \in Listing(s), d \in Listing(s) :
            IsProperPrefix(n[1], d[1]) =>
                /\ \A i \in DOMAIN Get(cache, s), j \in DOMAIN Get(cache, s) :
                        (Get(cache, s)[i] = n[1] /\ Get(cache, s)[j] = d[1]) => j < i
                /\ \A document \in TraitDocs :
                        (/\ PointerResolve(d[1], document).ok
                         /\ \A o \in Listing(s) : o = n \/ IsProperPrefix(n[1], o[1]))
                        => /\ Collect("last", ScannedValues(s, document))
                                = PointerResolve(n[1], document).value
                           /\ \E o \in Listing(s) :
                                /\ IsProperPrefix(n[1], o[1])
                                /\ PointerResolve(o[1], document).ok
                                /\ Collect("first", ScannedValues(s, document))
                                        = PointerResolve(o[1], document).value

\* C13 witness: the nodes /a and /a/b both list "s" and no other node does; the list
\* of "s" holds /a/b before /a, and on the document {"a": {"b": "3"}} Collect First
\* gives "3" (the value at /a/b)
C13_Witness ==
    /\ stage = "scanned"
    /\ {pn[1] : pn \in Listing("s")} = {<<"a">>, <<"a", "b">>}
    /\ Get(cache, "s") = <<<<"a", "b">>, <<"a">>>>
    /\ Collect("first", ScannedValues("s", Object(<<<<"a", Object(<<<<"b", String("3")>>>>)>>>>)))
            = String("3")

(***************************************************************************)
(* Claims about the claims resolver                                        *)
(***************************************************************************)
TokenKeys(object) == {object.m[i][1] : i \in DOMAIN object.m}

\* the scopes that are in the plan and requested
Selected == {s \in requested : ContainsKey(config, s)}

\* C6: every key of the id_token (access_token) map is the id_token (access_token)
\* claim name of the rule of a scope that is in the plan and requested, and every such
\* claim name is a key; so an empty requested set, or one naming no scope of the plan,
\* yields two empty maps.
C6_RequestedFilter ==
    stage = "resolved_all" =>
        /\ claims.id_token.t = "object" /\ claims.access_token.t = "object"
        /\ TokenKeys(claims.id_token)
            = {Get(config, s).session_data.id_token.v :
                s \in {x \in Selected : Get(config, x).session_data.id_token.some}}
        /\ TokenKeys(claims.access_token)
            = {Get(config, s).session_data.access_token.v :
                s \in {x \in Selected : Get(config, x).session_data.access_token.some}}
        /\ Selected = {} => claims = NoClaims

\* C6 witness: the plan holds "s" and "a" with different id_token claim names; "s" and
\* the unknown scope "t" are requested, "a" is not: only the claim of "s" is emitted
C6_Witness ==
    /\ stage = "resolved_all"
    /\ requested = {"s", "t"}
    /\ ContainsKey(config, "s") /\ ContainsKey(config, "a")
    /\ Get(config, "s").session_data = SdBoth
    /\ Get(config, "a").session_data = SdId
    /\ TokenKeys(claims.id_token) = {"n"}
    /\ TokenKeys(claims.access_token) = {"m"}

IsOk(r) == r.ok

\* the values of the pointers of scope s that resolve against the trait document, in list order
Surviving(s) ==
    LET outcomes == [i \in DOMAIN Get(cache, s) |-> PointerResolve(Get(cache, s)[i], traits)]
        kept == SelectSeq(outcomes, IsOk)
    IN  [i \in DOMAIN kept |-> kept[i].value]

\* C7: for an Implicit rule, First and Any give the first surviving value, Last the
\* last one, All the array of all of them in order; with no surviving value
\* First/Any/Last give null and All the empty array; with no entry in the Implicit
\* Index every policy gives null.
C7_ImplicitResolve ==
    (stage = "resolved" /\ claim.some) =>
        \A s \in requested :
            LET rule == Get(config, s)
            IN  rule.type = "implicit" =>
                /\ claim.v.scope = s
                /\ claim.v.session_data = rule.session_data
                /\ ~ContainsKey(cache, s) => claim.v.value = Null
                /\ ContainsKey(cache, s) =>
                    LET v == Surviving(s)
                    IN  /\ (rule.collect \in {"first", "any"} /\ Len(v) > 0) => claim.v.value = v[1]
                        /\ (rule.collect = "last" /\ Len(v) > 0) => claim.v.value = v[Len(v)]
                        /\ (rule.collect \in {"first", "any", "last"} /\ Len(v) = 0) => claim.v.value = Null
                        /\ rule.collect = "all" => claim.v.value = Array(v)

\* C7 witness: scope "s" has three pointers, the middle one does not resolve, the
\* first and the last resolve to different values, and Last picked the last one
C7_Witness ==
    /\ stage = "resolved" /\ claim.some /\ requested = {"s"}
    /\ Get(config, "s").type = "implicit" /\ Get(config, "s").collect = "last"
    /\ ContainsKey(cache, "s") /\ Len(Get(cache, "s")) = 3
    /\ PointerResolve(Get(cache, "s")[1], traits).ok
    /\ ~PointerResolve(Get(cache, "s")[2], traits).ok
    /\ PointerResolve(Get(cache, "s")[3], traits).ok
    /\ Len(Surviving("s")) = 2
    /\ Surviving("s")[1] # Surviving("s")[2]
    /\ claim.v.value = Surviving("s")[2]

\* the rule the plan holds for the scope that was resolved
ResolvedRule == Get(config, CHOOSE s \in requested : TRUE)

\* value is what the claim describes for the mapping: an object with exactly the
\* mapping's keys, an array with one position per item, the value at the pointer or null
RECURSIVE Conforms(_, _)
Conforms(mapping, value) ==
    CASE mapping.type = "object" ->
            /\ value.t = "object"
            /\ Len(value.m) = Len(mapping.properties)
            /\ Range(Keys(value.m)) = Range(Keys(mapping.properties))
            /\ \A i \in DOMAIN mapping.properties :
                    Conforms(mapping.properties[i][2], Get(value.m, mapping.properties[i][1]))
      [] mapping.type = "tuple" ->
            /\ value.t = "array"
            /\ Len(value.a) = Len(mapping.items)
            /\ \A i \in DOMAIN mapping.items : Conforms(mapping.items[i], value.a[i])
      [] mapping.type = "path" ->
            LET r == PointerResolve(mapping.ref_, traits)
            IN  value = IF r.ok THEN r.value ELSE Null

\* C11: resolving a scope with an Explicit rule gives, for an Object node, an object
\* with exactly the mapping's keys bound to the children's values; for a Tuple node,
\* an array of the mapping's length with the children's values in order; for a Path
\* node, the value at the pointer or null when it does not resolve. The claim keeps
\* the rule's Session Data.
C11_ExplicitResolve ==
    (stage = "resolved" /\ claim.some /\ ResolvedRule.type = "explicit") =>
        /\ Conforms(ResolvedRule.mapping, claim.v.value)
        /\ claim.v.session_data = ResolvedRule.session_data
        /\ (/\ ResolvedRule.mapping = MappingObject(<<<<"k", MappingPath(<<"a", "b">>)>>,
                    <<"j", MappingTuple(<<MappingPath(<<"b">>), MappingPath(<<"a">>)>>)>>>>)
             /\ traits = Object(<<<<"a", Object(<<<<"b", String("3")>>>>)>>>>))
            => claim.v.value = Object(<<<<"k", String("3")>>,
                    <<"j", Array(<<Null, Object(<<<<"b", String("3")>>>>)>>)>>>>)

\* C11 witness: a tuple of three paths was resolved and its middle pointer did not
\* resolve: the array has three positions, the middle one null
C11_Witness ==
    /\ stage = "resolved" /\ claim.some
    /\ ResolvedRule.type = "explicit"
    /\ ResolvedRule.mapping.type = "tuple"
    /\ Len(ResolvedRule.mapping.items) = 3
    /\ ~PointerResolve(ResolvedRule.mapping.items[2].ref_, traits).ok
    /\ PointerResolve(ResolvedRule.mapping.items[1].ref_, traits).ok
    /\ claim.v.value.t = "array"
    /\ Len(claim.v.value.a) = 3
    /\ claim.v.value.a[1] = String("1")
    /\ claim.v.value.a[2] = Null


(***************************************************************************)
(* Claims about the Implicit Index                                         *)
(***************************************************************************)
\* the pointers an index holds for a scope, none when the scope is absent
PointerList(index, s) == IF ContainsKey(index, s) THEN Get(index, s) ELSE <<>>

MergeStep == stage = "operands" /\ stage' = "merged"

\* C12: for every scope, the pointer list of merge(A, B) is the pointer list of A
\* followed by the pointer list of B (absent counting as empty): nothing is dropped
\* or deduplicated and the order inside each operand is kept; the merged index has
\* the scopes of both operands, each once.
C12_MergeConcatenates ==
    [][MergeStep =>
        /\ \A s \in Scopes : PointerList(cache', s) = PointerList(cache, s) \o PointerList(operand, s)
        /\ Range(Keys(cache')) = Range(Keys(cache)) \cup Range(Keys(operand))
        /\ Cardinality(Range(Keys(cache'))) = Len(cache')
        /\ operand' = operand]_vars

\* C12 witness: both operands list "s", the right operand repeats a pointer the left
\* one already holds, and the merged list holds the left list followed by the right
C12_Witness ==
    /\ stage = "merged"
    /\ ContainsKey(operand, "s") /\ ContainsKey(cache, "s")
    /\ Len(Get(operand, "s")) = 2
    /\ Len(Get(cache, "s")) = 4
    /\ Get(cache, "s")[1] # Get(cache, "s")[2]
    /\ Get(cache, "s")[3] = Get(cache, "s")[1]
    /\ Get(cache, "s")[4] = Get(cache, "s")[2]
    /\ <<Get(cache, "s")[3], Get(cache, "s")[4]>> = Get(operand, "s")
    /\ ContainsKey(cache, "a")

====
